---- MODULE Spec2Model ----
(***************************************************************************)
(* Writing-statistics dashboard: CSV normalisation, daily aggregation,     *)
(* writing streak, calendar-day sequence and gap filling of the trend      *)
(* series.  Strings are sequences of one-character strings, so that        *)
(* splitting, formatting and parsing are computed character by character.  *)
(* A Date object is its time value in hours since BaseYear-01-01T00:00Z    *)
(* (or the invalid date); the host timezone is a whole number of hours     *)
(* east of UTC.                                                            *)
(***************************************************************************)
EXTENDS Integers, Sequences, FiniteSets, TLC

VARIABLES
    tz,           \* host timezone, hours east of UTC (local = UTC + tz)
    now,          \* the system clock read by new Date(): hours since the epoch
    rawData,      \* WritingRecord[] handed to the aggregator
    aggregated,   \* AggregatedData returned by aggregateDashboardData
    memory,       \* the arrays in memory after the calls: the input array, the
                  \* array of recent saves and the array of daily aggregates
    days,         \* length of the trailing window
    dateSequence, \* string[] returned by generateDateSequence
    monthlyData,  \* TrendChartDatum[] returned by fillMissingDates
    csvLines,     \* the data lines of the CSV file, after its header line
    csvText,      \* text handed to parseCsv
    parsed,       \* WritingRecord[] returned by parseCsv
    localStorage, \* the 'writingData' item of the browser's localStorage
    heatmapData,  \* the state hooks of the dashboard component
    recentSaves,
    latestTotal,
    latestNetChange,
    writingStreak,
    loading,
    error,
    timeRange,
    isUploading,
    uploadSuccess,
    pending,      \* the loads and file reads in flight, each with the
                  \* timeRange its closure has captured and whether the
                  \* first render has started it
    sessionDates, \* the date sequence of each window length at the clock of
                  \* the session
    pc            \* which operation has run

\* the state hooks other than monthlyData, the storage and the calls in flight
dashboard == <<localStorage, heatmapData, recentSaves, latestTotal, latestNetChange,
               writingStreak, loading, error, timeRange, isUploading, uploadSuccess,
               pending, sessionDates>>

vars == <<tz, now, rawData, aggregated, memory, days, dateSequence, monthlyData,
          csvLines, csvText, parsed, dashboard, pc>>

----------------------------------------------------------------------------
(* Bounds of the model *)

MaxRecords == 3
MaxDays == 4
MaxLines == 2
MaxSaves == 4
MaxPending == 3

----------------------------------------------------------------------------
(* Generic sequence helpers *)

Range(s) == {s[i] : i \in 1..Len(s)}

BoundedSeq(S, n) == UNION {[1..k -> S] : k \in 0..n}

RECURSIVE SeqSum(_)
SeqSum(s) == IF s = <<>> THEN 0 ELSE Head(s) + SeqSum(Tail(s))

\* Array.prototype.reverse
RECURSIVE Reverse(_)
Reverse(s) == IF s = <<>> THEN <<>> ELSE Reverse(Tail(s)) \o <<Head(s)>>

\* Math.abs
Abs(x) == IF x < 0 THEN -x ELSE x

----------------------------------------------------------------------------
(* Characters and numbers *)

DigitChars == <<"0", "1", "2", "3", "4", "5", "6", "7", "8", "9">>

IsDigit(c) == c \in Range(DigitChars)

Digit(n) == DigitChars[n + 1]

DigitVal(c) == CHOOSE n \in 0..9 : DigitChars[n + 1] = c

\* String(n) for an integer n >= 0
RECURSIVE NumStr(_)
NumStr(n) == IF n < 10 THEN <<Digit(n)>> ELSE NumStr(n \div 10) \o <<Digit(n % 10)>>

\* String(n).padStart(2, '0')
Pad2(n) == IF n < 10 THEN <<"0">> \o NumStr(n) ELSE NumStr(n)

\* the number written by a sequence of digits
RECURSIVE DigitsVal(_)
DigitsVal(s) ==
    IF s = <<>> THEN 0 ELSE 10 * DigitsVal(SubSeq(s, 1, Len(s) - 1)) + DigitVal(s[Len(s)])

\* index of the first occurrence of character c in s, 0 when there is none
IndexOf(s, c) ==
    IF c \in Range(s) THEN CHOOSE i \in 1..Len(s) : s[i] = c /\ \A j \in 1..(i - 1) : s[j] # c
    ELSE 0

\* String.prototype.split(sep) for a one-character separator
RECURSIVE Split(_, _)
Split(s, sep) ==
    LET i == IndexOf(s, sep) IN
    IF i = 0 THEN <<s>>
    ELSE <<SubSeq(s, 1, i - 1)>> \o Split(SubSeq(s, i + 1, Len(s)), sep)

\* comparison of two strings as localeCompare orders them: punctuation
\* before digits, digits by value and before letters, a proper prefix first
CollationOrder == <<"-", ":">> \o DigitChars \o <<"a", "x">>

CollationKey(c) == CHOOSE i \in 1..Len(CollationOrder) : CollationOrder[i] = c

RECURSIVE localeCompare(_, _)
localeCompare(a, b) ==
    IF a = <<>> /\ b = <<>> THEN 0
    ELSE IF a = <<>> THEN -1
    ELSE IF b = <<>> THEN 1
    ELSE IF CollationKey(Head(a)) < CollationKey(Head(b)) THEN -1
    ELSE IF CollationKey(Head(a)) > CollationKey(Head(b)) THEN 1
    ELSE localeCompare(Tail(a), Tail(b))

----------------------------------------------------------------------------
(* The calendar and the Date object *)

\* calendar days that carry records, and the local days the clock is read on
RecordDays == {<<2024, 2, 28>>, <<2024, 2, 29>>, <<2024, 3, 1>>}
ClockDays == {<<2024, 1, 2>>, <<2024, 3, 1>>, <<2024, 3, 2>>}

\* the calendar of the model: the years of those days and one year either side;
\* time values count from the first of them instead of 1970, a shift no code
\* of the program observes
ModelYears == {d[1] : d \in RecordDays \cup ClockDays}
BaseYear == (CHOOSE y \in ModelYears : \A z \in ModelYears : y <= z) - 1
LastYear == (CHOOSE y \in ModelYears : \A z \in ModelYears : y >= z) + 1

IsLeap(y) == (y % 4 = 0 /\ y % 100 # 0) \/ y % 400 = 0

DaysInMonth(y, m) ==
    IF m = 2 THEN (IF IsLeap(y) THEN 29 ELSE 28)
    ELSE IF m \in {4, 6, 9, 11} THEN 30 ELSE 31

DaysInYear(y) == IF IsLeap(y) THEN 366 ELSE 365

RECURSIVE DaysBeforeYear(_)
DaysBeforeYear(y) == IF y <= BaseYear THEN 0 ELSE DaysBeforeYear(y - 1) + DaysInYear(y - 1)

RECURSIVE DaysBeforeMonth(_, _)
DaysBeforeMonth(y, m) == IF m <= 1 THEN 0 ELSE DaysBeforeMonth(y, m - 1) + DaysInMonth(y, m - 1)

\* days from the epoch to the calendar day y-m-d
DayNum(y, m, d) == DaysBeforeYear(y) + DaysBeforeMonth(y, m) + d - 1

\* the calendar day of each day number
CivilOfDayNum(n) ==
    LET y == CHOOSE yy \in BaseYear..LastYear :
                 DaysBeforeYear(yy) <= n /\ n < DaysBeforeYear(yy) + DaysInYear(yy)
        r == n - DaysBeforeYear(y)
        m == CHOOSE mm \in 1..12 :
                 DaysBeforeMonth(y, mm) <= r /\ r < DaysBeforeMonth(y, mm) + DaysInMonth(y, mm)
    IN  [year |-> y, month |-> m, day |-> r - DaysBeforeMonth(y, m) + 1]

InvalidDate == [valid |-> FALSE, t |-> 0]

\* local calendar fields of a valid Date
LocalDay(date, zone) == (date.t + zone) \div 24
LocalHour(date, zone) == (date.t + zone) % 24
getFullYear(date, zone) == CivilOfDayNum(LocalDay(date, zone)).year
getMonth(date, zone) == CivilOfDayNum(LocalDay(date, zone)).month - 1
getDate(date, zone) == CivilOfDayNum(LocalDay(date, zone)).day

\* Date.prototype.setDate: day `d` of the date's local month, rolling over
\* into the neighbouring months when d is outside the month; the local time
\* of day is kept
setDate(date, zone, d) ==
    LET first == DayNum(getFullYear(date, zone), getMonth(date, zone) + 1, 1)
    IN  [valid |-> TRUE, t |-> (first + d - 1) * 24 + LocalHour(date, zone) - zone]

IsIsoDateKey(s) ==
    /\ Len(s) = 10
    /\ s[5] = "-" /\ s[8] = "-"
    /\ \A i \in {1, 2, 3, 4, 6, 7, 9, 10} : IsDigit(s[i])
    /\ DigitsVal(SubSeq(s, 1, 4)) \in BaseYear..LastYear
    /\ DigitsVal(SubSeq(s, 6, 7)) \in 1..12
    /\ DigitsVal(SubSeq(s, 9, 10)) \in 1..DaysInMonth(DigitsVal(SubSeq(s, 1, 4)), DigitsVal(SubSeq(s, 6, 7)))

\* new Date(s) for a date-only string: a YYYY-MM-DD string is midnight UTC of
\* that day; the model's keys are of that shape or not dates at all
NewDateFromString(s) ==
    IF IsIsoDateKey(s)
    THEN [valid |-> TRUE,
          t |-> 24 * DayNum(DigitsVal(SubSeq(s, 1, 4)), DigitsVal(SubSeq(s, 6, 7)),
                            DigitsVal(SubSeq(s, 9, 10)))]
    ELSE InvalidDate

NaNStr == <<"N", "a", "N">>

getLocalDateStringFromDate(date, zone) ==
    IF ~date.valid THEN NaNStr \o <<"-">> \o NaNStr \o <<"-">> \o NaNStr
    ELSE LET year == getFullYear(date, zone)
             month == Pad2(getMonth(date, zone) + 1)
             day == Pad2(getDate(date, zone))
         IN  NumStr(year) \o <<"-">> \o month \o <<"-">> \o day

----------------------------------------------------------------------------
(* Input records *)

DateKey(d) == NumStr(d[1]) \o <<"-">> \o Pad2(d[2]) \o <<"-">> \o Pad2(d[3])

FirstRecordDay == CHOOSE d \in RecordDays : \A e \in RecordDays : DayNum(d[1], d[2], d[3]) <= DayNum(e[1], e[2], e[3])
\* every record day in the morning, and the first of them in the evening too
Timestamps ==
    {DateKey(d) \o <<" ">> \o t : d \in RecordDays, t \in {<<"0", "9", ":", "0", "0">>}}
    \cup {DateKey(FirstRecordDay) \o <<" ">> \o <<"2", "1", ":", "0", "0">>}
TotalWords == {100, 150}
WordChanges == {-5, 7}

Records ==
    [timestamp : Timestamps, filename : {<<"a">>}, total_words : TotalWords,
     word_change : WordChanges]

TZOffsets == {-5, 0, 8}

----------------------------------------------------------------------------
(* Daily aggregation *)

DatePartWholeTimestamp(record) == record.timestamp

\* record.timestamp.split(' ')[0]
DatePart(record) == Split(record.timestamp, " ")[1]

\* the Map from date to the records of that date: its entries in insertion
\* order, each the date and the records pushed under it, in input order
RECURSIVE GroupByDate(_, _)
GroupByDate(groupedByDate, records) ==
    IF records = <<>> THEN groupedByDate
    ELSE LET record == Head(records)
             date == DatePart(record)
             has == \E i \in 1..Len(groupedByDate) : groupedByDate[i].date = date
             withKey == IF has THEN groupedByDate
                        ELSE Append(groupedByDate, [date |-> date, records |-> <<>>])
             pushed == [i \in 1..Len(withKey) |->
                          IF withKey[i].date = date
                          THEN [withKey[i] EXCEPT !.records = Append(@, record)]
                          ELSE withKey[i]]
         IN  GroupByDate(pushed, Tail(records))

RECURSIVE TotalInvestmentSigned(_)
TotalInvestmentSigned(records) ==
    IF records = <<>> THEN 0
    ELSE Head(records).word_change + TotalInvestmentSigned(Tail(records))

\* records.reduce((sum, record) => sum + Math.abs(record.word_change), 0)
RECURSIVE TotalInvestment(_)
TotalInvestment(records) ==
    IF records = <<>> THEN 0
    ELSE Abs(Head(records).word_change) + TotalInvestment(Tail(records))

DayOfGroupFirstRecord(entry) ==
    [date |-> entry.date,
     is_active |-> Len(entry.records) > 0,
     total_words |-> entry.records[1].total_words,
     net_change |-> 0,
     total_investment |-> TotalInvestment(entry.records)]

\* the object built for one Map entry
DayOfGroup(entry) ==
    LET records == entry.records
        lastRecord == records[Len(records)]
    IN  [date |-> entry.date,
         is_active |-> Len(records) > 0,
         total_words |-> lastRecord.total_words,
         net_change |-> 0,
         total_investment |-> TotalInvestment(records)]

\* .sort((a, b) => a.date.localeCompare(b.date)): a stable sort
RECURSIVE InsertByDate(_, _)
InsertByDate(sorted, x) ==
    IF sorted = <<>> THEN <<x>>
    ELSE IF localeCompare(x.date, Head(sorted).date) < 0 THEN <<x>> \o sorted
    ELSE <<Head(sorted)>> \o InsertByDate(Tail(sorted), x)

SortByDateUnsorted(s) == s

RECURSIVE SortByDate(_)
SortByDate(s) ==
    IF s = <<>> THEN <<>>
    ELSE InsertByDate(SortByDate(SubSeq(s, 1, Len(s) - 1)), s[Len(s)])

\* the second pass: net_change of each day against the previous aggregate
NetChangeFirstDayZero(aggregatedDays, i) ==
    IF i > 1 THEN aggregatedDays[i].total_words - aggregatedDays[i - 1].total_words
    ELSE aggregatedDays[i].net_change

NetChange(aggregatedDays, i) ==
    IF i > 1 THEN aggregatedDays[i].total_words - aggregatedDays[i - 1].total_words
    ELSE aggregatedDays[i].total_investment

aggregateByDay(records) ==
    LET groupedByDate == GroupByDate(<<>>, records)
        \* .map(([date, records]) => ...)
        mapped == [i \in 1..Len(groupedByDate) |-> DayOfGroup(groupedByDate[i])]
        aggregatedDays == SortByDate(mapped)
    IN  [i \in 1..Len(aggregatedDays) |->
            [aggregatedDays[i] EXCEPT !.net_change = NetChange(aggregatedDays, i)]]

\* the loop of calculateWritingStreak, from the date it is at
RECURSIVE StreakFrom(_, _, _, _)
StreakFrom(daily, currentDate, streak, zone) ==
    LET dateString == getLocalDateStringFromDate(currentDate, zone)
        \* dateMap.get(dateString): the last day set under that key
        hits == {i \in 1..Len(daily) : daily[i].date = dateString}
        dayData == daily[CHOOSE i \in hits : \A j \in hits : j <= i]
    IN  IF hits # {} /\ dayData.net_change # 0
        THEN StreakFrom(daily, setDate(currentDate, zone, getDate(currentDate, zone) - 1),
                        streak + 1, zone)
        ELSE streak

calculateWritingStreak(daily, zone) ==
    IF Len(daily) = 0 THEN 0
    ELSE LET mostRecentDay == daily[Len(daily)]
             currentDate == NewDateFromString(mostRecentDay.date)
         IN  StreakFrom(daily, currentDate, 0, zone)

RecentSavesNotReversed(records) ==
    SubSeq(records, IF Len(records) > 3 THEN Len(records) - 2 ELSE 1, Len(records))

\* rawData.slice(-3).reverse()
RecentSaves(records) ==
    Reverse(SubSeq(records, IF Len(records) > 3 THEN Len(records) - 2 ELSE 1, Len(records)))

aggregateDashboardDataLatestOfDaily(records, zone) ==
    LET daily == aggregateByDay(records)
    IN  [daily |-> daily,
         recentSaves |-> RecentSaves(records),
         latestTotal |-> IF Len(daily) > 0 THEN daily[Len(daily)].total_words ELSE 0,
         latestNetChange |-> IF Len(daily) > 0 THEN daily[Len(daily)].net_change ELSE 0,
         writingStreak |-> calculateWritingStreak(daily, zone)]

aggregateDashboardData(records, zone) ==
    LET daily == aggregateByDay(records)
    IN  [daily |-> daily,
         recentSaves |-> RecentSaves(records),
         latestTotal |-> IF Len(records) > 0 THEN records[Len(records)].total_words ELSE 0,
         latestNetChange |-> IF Len(daily) > 0 THEN daily[Len(daily)].net_change ELSE 0,
         writingStreak |-> calculateWritingStreak(daily, zone)]

\* Array.prototype.slice(-3): a new array `to` with the last three elements
sliceLastThree(mem, from, to) ==
    [mem EXCEPT ![to] = SubSeq(mem[from], IF Len(mem[from]) > 3 THEN Len(mem[from]) - 2 ELSE 1,
                               Len(mem[from]))]

\* Array.prototype.reverse: reverses the array `ref` in place
reverseInPlace(mem, ref) == [mem EXCEPT ![ref] = Reverse(@)]

MemoryAfterDashboardDataNoSlice(records, daily) ==
    LET called == [rawData |-> records, recentSaves |-> <<>>, daily |-> daily]
        reversed == reverseInPlace(called, "rawData")
    IN  sliceLastThree(reversed, "rawData", "recentSaves")

\* the arrays after aggregateDashboardData has built `daily` from `records`
\* and returned: aggregateByDay pushes, sorts and
\* assigns net_change on arrays and objects it has created itself; reverse
\* acts on the array slice has created; calculateWritingStreak calls setDate
\* on the Date it has created and writes nothing else
MemoryAfterDashboardData(records, daily) ==
    LET called == [rawData |-> records, recentSaves |-> <<>>, daily |-> daily]
        sliced == sliceLastThree(called, "rawData", "recentSaves")
    IN  reverseInPlace(sliced, "recentSaves")

NoMemory == [rawData |-> <<>>, recentSaves |-> <<>>, daily |-> <<>>]

\* the state of the dashboard before any data is loaded
NoAggregate ==
    [daily |-> <<>>, recentSaves |-> <<>>, latestTotal |-> 0, latestNetChange |-> 0,
     writingStreak |-> 0]

----------------------------------------------------------------------------
(* The state of the dashboard component before it is mounted *)

\* localStorage.getItem returns null for an absent item
NoItem == [present |-> FALSE, data |-> <<>>]

NoError == <<>>

\* the initial values of the useState hooks, nothing stored, nothing in flight
HooksInitial ==
    /\ heatmapData = <<>>
    /\ recentSaves = <<>>
    /\ latestTotal = 0
    /\ latestNetChange = 0
    /\ writingStreak = 0
    /\ loading = TRUE
    /\ error = NoError
    /\ timeRange = "month"
    /\ isUploading = FALSE
    /\ uploadSuccess = FALSE
    /\ pending = <<>>

----------------------------------------------------------------------------
(* Aggregation of a record sequence on a host *)

InitAgg ==
    /\ tz \in TZOffsets
    /\ rawData \in BoundedSeq(Records, MaxRecords)
    /\ now = 0
    /\ aggregated = NoAggregate
    /\ memory = NoMemory
    /\ days = 0
    /\ dateSequence = <<>>
    /\ monthlyData = <<>>
    /\ csvLines = <<>>
    /\ csvText = <<>>
    /\ parsed = <<>>
    /\ localStorage = NoItem
    /\ sessionDates = <<>>
    /\ HooksInitial
    /\ pc = "start"

Aggregate ==
    /\ pc = "start"
    /\ aggregated' = aggregateDashboardData(rawData, tz)
    /\ memory' = MemoryAfterDashboardData(rawData, aggregated'.daily)
    /\ pc' = "aggregated"
    /\ UNCHANGED <<tz, now, rawData, days, dateSequence, monthlyData, csvLines, csvText, parsed, dashboard>>

NextAgg == Aggregate

SpecAgg == InitAgg /\ [][NextAgg]_vars

\* the same call on longer sequences of one snapshot per day and total
InitRecent ==
    /\ tz \in TZOffsets
    /\ rawData \in BoundedSeq({r \in Records : r.word_change > 0 /\ r.timestamp[12] = "0"}, MaxSaves)
    /\ now = 0
    /\ aggregated = NoAggregate
    /\ memory = NoMemory
    /\ days = 0
    /\ dateSequence = <<>>
    /\ monthlyData = <<>>
    /\ csvLines = <<>>
    /\ csvText = <<>>
    /\ parsed = <<>>
    /\ localStorage = NoItem
    /\ sessionDates = <<>>
    /\ HooksInitial
    /\ pc = "start"

SpecRecent == InitRecent /\ [][NextAgg]_vars

----------------------------------------------------------------------------
(* The trend series: calendar-day sequence and gap filling *)

\* a number | null field of a chart datum
Number(n) == [isNull |-> FALSE, value |-> n]
Null == [isNull |-> TRUE, value |-> 0]

formatForTrendChartInvestment(daily) ==
    [i \in 1..Len(daily) |->
        [date |-> daily[i].date,
         dailyWords |-> daily[i].total_investment,
         totalWords |-> Number(daily[i].total_words)]]

formatForTrendChart(daily) ==
    [i \in 1..Len(daily) |->
        [date |-> daily[i].date,
         dailyWords |-> daily[i].net_change,
         totalWords |-> Number(daily[i].total_words)]]

setDateClamped(date, zone, d) ==
    LET first == DayNum(getFullYear(date, zone), getMonth(date, zone) + 1, 1)
        dd == IF d < 1 THEN 1 ELSE d
    IN  [valid |-> TRUE, t |-> (first + dd - 1) * 24 + LocalHour(date, zone) - zone]

generateDateSequenceClamped(startDate, n, zone) ==
    [k \in 1..n |->
        getLocalDateStringFromDate(
            setDateClamped(startDate, zone, getDate(startDate, zone) - (n - 1) + (k - 1)), zone)]

generateDateSequence(startDate, n, zone) ==
    [k \in 1..n |->
        LET i == k - 1
            date == setDate(startDate, zone, getDate(startDate, zone) - (n - 1) + i)
            year == getFullYear(date, zone)
            month == Pad2(getMonth(date, zone) + 1)
            day == Pad2(getDate(date, zone))
        IN  NumStr(year) \o <<"-">> \o month \o <<"-">> \o day]

\* dateSequence.includes(item.date)
Includes(seq, x) == \E i \in 1..Len(seq) : seq[i] = x

\* rawTrendData.filter(item => dateSequence.includes(item.date))
RECURSIVE FilterToWindow(_, _)
FilterToWindow(data, seq) ==
    IF data = <<>> THEN <<>>
    ELSE (IF Includes(seq, Head(data).date) THEN <<Head(data)>> ELSE <<>>)
         \o FilterToWindow(Tail(data), seq)

RECURSIVE FillFromResetting(_, _, _, _)
FillFromResetting(data, seq, lastTotalWords, foundFirstData) ==
    IF seq = <<>> THEN <<>>
    ELSE LET date == Head(seq)
             hits == {i \in 1..Len(data) : data[i].date = date}
             existingData == data[CHOOSE i \in hits : \A j \in hits : j <= i]
         IN  IF hits # {}
             THEN <<existingData>> \o FillFromResetting(data, Tail(seq), lastTotalWords, TRUE)
             ELSE IF foundFirstData
             THEN <<[date |-> date, dailyWords |-> 0, totalWords |-> lastTotalWords]>>
                  \o FillFromResetting(data, Tail(seq), lastTotalWords, foundFirstData)
             ELSE <<[date |-> date, dailyWords |-> 0, totalWords |-> Null]>>
                  \o FillFromResetting(data, Tail(seq), lastTotalWords, foundFirstData)

\* positions of the items of a date; dataMap.get(date) is the last of them
ItemsOfDate(data, date) == {i \in 1..Len(data) : data[i].date = date}

dataMapGet(data, date) ==
    data[CHOOSE i \in ItemsOfDate(data, date) : \A j \in ItemsOfDate(data, date) : j <= i]

\* the positions of the date sequence at which the callback finds data
PositionsWithData(data, seq) == {k \in 1..Len(seq) : ItemsOfDate(data, seq[k]) # {}}

\* the callback of dateSequence.map at position k, with the two variables it
\* closes over as the earlier positions have left them: foundFirstData is
\* set once a position with data has been passed, and lastTotalWords is the
\* total of the last such position
FillAt(data, seq, found, k) ==
    IF k \in found THEN dataMapGet(data, seq[k])
    ELSE LET passed == {j \in found : j < k}
         IN  IF passed # {}
             THEN [date |-> seq[k], dailyWords |-> 0,
                   totalWords |->
                       dataMapGet(data, seq[CHOOSE j \in passed : \A l \in passed : l <= j]).totalWords]
             ELSE [date |-> seq[k], dailyWords |-> 0, totalWords |-> Null]

\* the walk over the date sequence, for the items and the positions found
FillWith(data, seq) ==
    CHOOSE filled \in {[k \in 1..Len(seq) |-> FillAt(data, seq, found, k)] :
                          found \in {PositionsWithData(data, seq)}} : TRUE

fillMissingDatesResetting(data, seq) == FillFromResetting(data, seq, Number(0), FALSE)

fillMissingDates(data, seq) == CHOOSE filled \in {FillWith(items, seq) : items \in {data}} : TRUE

\* the records of the trend model: one snapshot per record day and total
TrendRecords == {r \in Records : r.word_change > 0 /\ r.timestamp[12] = "0"}

\* local hours at which the clock is read
ClockHours == {1, 22}

InitFill ==
    /\ tz \in TZOffsets
    /\ \E d \in ClockDays, h \in ClockHours : now = 24 * DayNum(d[1], d[2], d[3]) + h - tz
    /\ rawData \in BoundedSeq(TrendRecords, MaxRecords)
    /\ days \in 1..MaxDays
    /\ aggregated = NoAggregate
    /\ memory = NoMemory
    /\ dateSequence = <<>>
    /\ monthlyData = <<>>
    /\ csvLines = <<>>
    /\ csvText = <<>>
    /\ parsed = <<>>
    /\ localStorage = NoItem
    /\ sessionDates = <<>>
    /\ HooksInitial
    /\ pc = "start"

\* aggregateDashboardData followed by the trend part of updateAllDataStates:
\* endDate is the clock, rawTrendData the formatted aggregates, filteredData
\* those of the window, and the filled series is what setMonthlyData stores
UpdateTrend ==
    /\ pc = "start"
    /\ aggregated' = aggregateDashboardData(rawData, tz)
    \* formatForTrendChart, filter and fillMissingDates build new arrays and
    \* objects and write to none they are given
    /\ memory' = MemoryAfterDashboardData(rawData, aggregated'.daily)
    /\ dateSequence' = generateDateSequence([valid |-> TRUE, t |-> now], days, tz)
    /\ monthlyData' =
          fillMissingDates(FilterToWindow(formatForTrendChart(aggregated'.daily), dateSequence'),
                           dateSequence')
    /\ pc' = "filled"
    /\ UNCHANGED <<tz, now, rawData, days, csvLines, csvText, parsed, dashboard>>

NextFill == UpdateTrend

SpecFill == InitFill /\ [][NextFill]_vars

----------------------------------------------------------------------------
(* CSV normalisation *)

IsWhiteSpace(c) == c \in {" ", "\n"}

\* String.prototype.trim
RECURSIVE TrimStart(_)
TrimStart(s) == IF s # <<>> /\ IsWhiteSpace(Head(s)) THEN TrimStart(Tail(s)) ELSE s

RECURSIVE TrimEnd(_)
TrimEnd(s) ==
    IF s # <<>> /\ IsWhiteSpace(s[Len(s)]) THEN TrimEnd(SubSeq(s, 1, Len(s) - 1)) ELSE s

Trim(s) == TrimEnd(TrimStart(s))

\* the longest prefix of s made of digits
RECURSIVE DigitPrefix(_)
DigitPrefix(s) ==
    IF s # <<>> /\ IsDigit(Head(s)) THEN <<Head(s)>> \o DigitPrefix(Tail(s)) ELSE <<>>

\* parseInt(s): leading white space, an optional sign, then the digits up to
\* the first other character; NaN when there is no digit
parseInt(s) ==
    LET t == TrimStart(s)
        signed == t # <<>> /\ Head(t) \in {"-", "+"}
        digits == DigitPrefix(IF signed THEN Tail(t) ELSE t)
    IN  IF digits = <<>> THEN [nan |-> TRUE, value |-> 0]
        ELSE [nan |-> FALSE,
              value |-> IF signed /\ Head(t) = "-" THEN -DigitsVal(digits) ELSE DigitsVal(digits)]

\* parseInt(s) || 0
ParseIntOrZero(s) == IF parseInt(s).nan THEN 0 ELSE parseInt(s).value

NullRecord == [isNull |-> TRUE]

\* the callback of lines.slice(1).map
RecordOfLine(line) ==
    LET values == Split(line, ",")
    IN  IF Len(values) < 4 THEN NullRecord
        ELSE [isNull |-> FALSE,
              timestamp |-> Trim(values[1]),
              filename |-> Trim(values[2]),
              total_words |-> ParseIntOrZero(values[3]),
              word_change |-> ParseIntOrZero(values[4])]

\* record !== null && !!record.timestamp
KeepsRecord(record) == ~record.isNull /\ record.timestamp # <<>>

RECURSIVE RecordsOfLines(_)
RecordsOfLines(lines) ==
    IF lines = <<>> THEN <<>>
    ELSE LET record == RecordOfLine(Head(lines))
         IN  (IF KeepsRecord(record)
              THEN <<[timestamp |-> record.timestamp, filename |-> record.filename,
                      total_words |-> record.total_words, word_change |-> record.word_change]>>
              ELSE <<>>)
             \o RecordsOfLines(Tail(lines))

parseCsv(text) ==
    LET lines == Split(Trim(text), "\n")
    IN  RecordsOfLines(Tail(lines))

\* fields and lines of the files of the model
HeaderLine == <<"t", ",", "f", ",", "w", ",", "c">>
TimestampFields ==
    {DateKey(FirstRecordDay) \o <<" ", "0", "9", ":", "0", "0">>, <<>>, <<" ">>, <<"x">>}
TotalWordsFields == {<<"1", "0", "0">>, <<"x">>}
WordChangeFields == {<<"-", "5">>, <<" ", "7", "x">>}
FullLines ==
    {ts \o <<",", "a", ",">> \o tw \o <<",">> \o wc :
        ts \in TimestampFields, tw \in TotalWordsFields, wc \in WordChangeFields}
ShortLines ==
    {<<>>} \cup {ts \o <<",", "a", ",", "1", "0", "0">> : ts \in {<<>>, <<"x">>}}
LongLines ==
    {ts \o <<",", "a", ",", "1", "0", "0", ",", "-", "5", ",", "x">> :
        ts \in {DateKey(FirstRecordDay) \o <<" ", "0", "9", ":", "0", "0">>}}
FileLines == FullLines \cup ShortLines \cup LongLines

\* a file is its header line and its data lines, each ended by a line feed
\* or, the last one, by the end of the file
RECURSIVE JoinLines(_)
JoinLines(lines) ==
    IF lines = <<>> THEN <<>> ELSE <<"\n">> \o Head(lines) \o JoinLines(Tail(lines))

InitCsv ==
    /\ csvLines \in BoundedSeq(FileLines, MaxLines)
    /\ \E final \in {<<>>, <<"\n">>} : csvText = HeaderLine \o JoinLines(csvLines) \o final
    /\ tz \in TZOffsets
    /\ now = 0
    /\ rawData = <<>>
    /\ aggregated = NoAggregate
    /\ memory = NoMemory
    /\ days = 0
    /\ dateSequence = <<>>
    /\ monthlyData = <<>>
    /\ parsed = <<>>
    /\ localStorage = NoItem
    /\ sessionDates = <<>>
    /\ HooksInitial
    /\ pc = "start"

\* the text of a file is parsed and the records are aggregated
ParseAndAggregate ==
    /\ pc = "start"
    /\ parsed' = parseCsv(csvText)
    /\ rawData' = parsed'
    /\ aggregated' = aggregateDashboardData(parsed', tz)
    /\ memory' = MemoryAfterDashboardData(parsed', aggregated'.daily)
    /\ pc' = "loaded"
    /\ UNCHANGED <<tz, now, days, dateSequence, monthlyData, csvLines, csvText, dashboard>>

NextCsv == ParseAndAggregate

SpecCsv == InitCsv /\ [][NextCsv]_vars

----------------------------------------------------------------------------
(* The dashboard component: state hooks, effects and handlers *)

WeekDays == 7
MonthDays == 30
YearDays == 180

TimeRanges == {"week", "month", "year"}

\* the switch of updateAllDataStates
DaysOfRange(currentTimeRange) ==
    CASE currentTimeRange = "week" -> WeekDays
      [] currentTimeRange = "month" -> MonthDays
      [] currentTimeRange = "year" -> YearDays
      [] OTHER -> MonthDays

formatForHeatmap(daily) ==
    [i \in 1..Len(daily) |-> [date |-> daily[i].date, count |-> daily[i].total_investment]]

Undefined == <<"u", "n", "d", "e", "f", "i", "n", "e", "d">>

\* the rows of the recent-saves list
RecentSaveRows(saves) ==
    [i \in 1..Len(saves) |->
        LET parts == Split(saves[i].timestamp, " ")
        IN  [filename |-> saves[i].filename,
             date |-> parts[1],
             time |-> IF Len(parts) >= 2 THEN parts[2] ELSE Undefined,
             wordCount |-> saves[i].total_words]]

\* what updateAllDataStates writes
displayed == <<rawData, aggregated, memory, days, dateSequence, monthlyData, heatmapData,
               recentSaves, latestTotal, latestNetChange, writingStreak>>

\* aggregateDashboardData(records) followed by updateAllDataStates with the
\* time range the caller passes or its closure has captured
updateAllDataStates(records, currentTimeRange) ==
    /\ rawData' = records
    /\ aggregated' = aggregateDashboardData(records, tz)
    /\ memory' = MemoryAfterDashboardData(records, aggregated'.daily)
    /\ heatmapData' = formatForHeatmap(aggregated'.daily)
    /\ days' = DaysOfRange(currentTimeRange)
    \* generateDateSequence(new Date(), days): the clock stays where it is
    /\ dateSequence' = sessionDates[days']
    /\ monthlyData' =
          fillMissingDates(FilterToWindow(formatForTrendChart(aggregated'.daily), dateSequence'),
                           dateSequence')
    /\ recentSaves' = RecentSaveRows(aggregated'.recentSaves)
    /\ latestTotal' = aggregated'.latestTotal
    /\ latestNetChange' = aggregated'.latestNetChange
    /\ writingStreak' = aggregated'.writingStreak

\* the example data served at /data/writing_data.csv, as parseCsv returns it
DefaultCsvRecords ==
    <<[timestamp |-> DateKey(FirstRecordDay) \o <<" ", "0", "9", ":", "0", "0">>,
       filename |-> <<"a">>, total_words |-> 100, word_change |-> 7]>>

\* the files the user uploads, as parseCsv returns them: one without a data
\* line and one with a record of the latest record day
LastRecordDay == CHOOSE d \in RecordDays : \A e \in RecordDays : DayNum(d[1], d[2], d[3]) >= DayNum(e[1], e[2], e[3])
UploadedFiles ==
    {<<>>,
     <<[timestamp |-> DateKey(LastRecordDay) \o <<" ", "0", "9", ":", "0", "0">>,
        filename |-> <<"a">>, total_words |-> 150, word_change |-> -5]>>}

\* JSON.parse of the stored item, null when there is none
loadFromLocalStorage == localStorage

\* cachedData && cachedData.length > 0
HasCachedData == loadFromLocalStorage.present /\ Len(loadFromLocalStorage.data) > 0

\* the main view is rendered: neither the loading nor the error screen
MainViewRendered == pc = "mounted" /\ ~loading /\ error = NoError

Remove(seq, i) == SubSeq(seq, 1, i - 1) \o SubSeq(seq, i + 1, Len(seq))

\* the session runs on one host, with the clock at one instant: the evening
\* of the latest record day
SessionZone == 0
SessionClock == 24 * DayNum(LastRecordDay[1], LastRecordDay[2], LastRecordDay[3]) + 22

InitDash ==
    /\ tz = SessionZone
    /\ now = SessionClock - tz
    /\ rawData = <<>>
    /\ aggregated = NoAggregate
    /\ memory = NoMemory
    /\ days = 0
    /\ dateSequence = <<>>
    /\ monthlyData = <<>>
    /\ csvLines = <<>>
    /\ csvText = <<>>
    /\ parsed = <<>>
    /\ localStorage \in {NoItem} \cup {[present |-> TRUE, data |-> f] : f \in UploadedFiles}
    /\ sessionDates = [n \in {WeekDays, MonthDays, YearDays} |->
                          generateDateSequence([valid |-> TRUE, t |-> now], n, tz)]
    /\ HooksInitial
    /\ pc = "unmounted"

\* first render: initializeData and updateDataForTimeRange both run; with
\* cached records each updates synchronously with timeRange 'month',
\* otherwise each starts its own load of the example data
Mount ==
    /\ pc = "unmounted"
    /\ pc' = "mounted"
    /\ IF HasCachedData
       THEN /\ updateAllDataStates(loadFromLocalStorage.data, timeRange)
            /\ loading' = FALSE
            /\ UNCHANGED pending
       ELSE /\ loading' = TRUE
            /\ pending' = <<[kind |-> "initializeData", timeRange |-> timeRange, data |-> <<>>,
                             onMount |-> TRUE],
                            [kind |-> "updateDataForTimeRange", timeRange |-> timeRange,
                             data |-> <<>>, onMount |-> TRUE]>>
            /\ UNCHANGED displayed
    /\ UNCHANGED <<tz, now, sessionDates, csvLines, csvText, parsed, localStorage, error, timeRange,
                   isUploading, uploadSuccess>>

\* a loadCsv started by one of the two effects resolves
LoadResolves ==
    \E i \in 1..Len(pending) :
        /\ pending[i].kind \in {"initializeData", "updateDataForTimeRange"}
        /\ updateAllDataStates(DefaultCsvRecords, pending[i].timeRange)
        /\ loading' = IF pending[i].kind = "initializeData" THEN FALSE ELSE loading
        /\ pending' = Remove(pending, i)
        /\ UNCHANGED <<tz, now, sessionDates, csvLines, csvText, parsed, localStorage, error, timeRange,
                       isUploading, uploadSuccess, pc>>

\* a loadCsv rejects: initializeData shows the error, updateDataForTimeRange
\* only logs it
LoadRejects ==
    \E i \in 1..Len(pending) :
        /\ pending[i].kind \in {"initializeData", "updateDataForTimeRange"}
        /\ IF pending[i].kind = "initializeData"
           THEN error' = <<"F", "a", "i", "l", "e", "d">> /\ loading' = FALSE
           ELSE UNCHANGED <<error, loading>>
        /\ pending' = Remove(pending, i)
        /\ UNCHANGED <<tz, now, sessionDates, csvLines, csvText, parsed, localStorage, timeRange,
                       isUploading, uploadSuccess, pc>>
        /\ UNCHANGED displayed

\* the time-range selector calls setTimeRange; the effect on timeRange runs
ChangeTimeRange ==
    \E value \in TimeRanges \ {timeRange} :
        /\ MainViewRendered
        /\ timeRange' = value
        /\ IF HasCachedData
           THEN /\ updateAllDataStates(loadFromLocalStorage.data, value)
                /\ UNCHANGED pending
           ELSE /\ Len(pending) < MaxPending
                /\ pending' = Append(pending, [kind |-> "updateDataForTimeRange",
                                               timeRange |-> value, data |-> <<>>,
                                               onMount |-> FALSE])
                /\ UNCHANGED displayed
        /\ UNCHANGED <<tz, now, sessionDates, csvLines, csvText, parsed, localStorage, loading, error,
                       isUploading, uploadSuccess, pc>>

\* handleFileUpload up to its await: the file input is disabled while a file
\* is being read
handleFileUpload ==
    \E file \in UploadedFiles :
        /\ MainViewRendered
        /\ ~isUploading
        /\ Len(pending) < MaxPending
        /\ isUploading' = TRUE
        /\ uploadSuccess' = FALSE
        /\ pending' = Append(pending, [kind |-> "handleFileUpload", timeRange |-> timeRange,
                                       data |-> file, onMount |-> FALSE])
        /\ UNCHANGED <<tz, now, sessionDates, csvLines, csvText, parsed, localStorage, loading, error,
                       timeRange, pc>>
        /\ UNCHANGED displayed

\* parseClientFile resolves: the records are saved, unless setItem throws,
\* and displayed with the timeRange of the render that started the upload
ParseResolves ==
    \E i \in 1..Len(pending), saved \in BOOLEAN :
        /\ pending[i].kind = "handleFileUpload"
        /\ localStorage' = IF saved THEN [present |-> TRUE, data |-> pending[i].data]
                           ELSE localStorage
        /\ updateAllDataStates(pending[i].data, pending[i].timeRange)
        /\ uploadSuccess' = TRUE
        /\ isUploading' = FALSE
        /\ pending' = Remove(pending, i)
        /\ UNCHANGED <<tz, now, sessionDates, csvLines, csvText, parsed, loading, error, timeRange, pc>>

\* parseClientFile rejects: an alert, nothing else changes
ParseRejects ==
    \E i \in 1..Len(pending) :
        /\ pending[i].kind = "handleFileUpload"
        /\ isUploading' = FALSE
        /\ pending' = Remove(pending, i)
        /\ UNCHANGED <<tz, now, sessionDates, csvLines, csvText, parsed, localStorage, loading, error,
                       timeRange, uploadSuccess, pc>>
        /\ UNCHANGED displayed

\* the timer set by a successful upload hides the success message
HideUploadSuccess ==
    /\ uploadSuccess
    /\ uploadSuccess' = FALSE
    /\ UNCHANGED <<tz, now, sessionDates, csvLines, csvText, parsed, localStorage, loading, error,
                   timeRange, isUploading, pending, pc>>
    /\ UNCHANGED displayed

\* the clear-cache button: clearLocalStorage, then the page is loaded again
ClearCacheAndReload ==
    /\ MainViewRendered
    /\ localStorage' = NoItem
    /\ rawData' = <<>>
    /\ aggregated' = NoAggregate
    /\ memory' = NoMemory
    /\ days' = 0
    /\ dateSequence' = <<>>
    /\ monthlyData' = <<>>
    /\ heatmapData' = <<>>
    /\ recentSaves' = <<>>
    /\ latestTotal' = 0
    /\ latestNetChange' = 0
    /\ writingStreak' = 0
    /\ loading' = TRUE
    /\ error' = NoError
    /\ timeRange' = "month"
    /\ isUploading' = FALSE
    /\ uploadSuccess' = FALSE
    /\ pending' = <<>>
    /\ pc' = "unmounted"
    /\ UNCHANGED <<tz, now, sessionDates, csvLines, csvText, parsed>>

NextDash ==
    \/ Mount
    \/ LoadResolves
    \/ LoadRejects
    \/ ChangeTimeRange
    \/ handleFileUpload
    \/ ParseResolves
    \/ ParseRejects
    \/ HideUploadSuccess
    \/ ClearCacheAndReload

SpecDash == InitDash /\ [][NextDash]_vars

----------------------------------------------------------------------------
(* What the properties speak of, stated from the input records *)

\* the part of a string before its first space, by its defining property
KeyOf(str) ==
    CHOOSE n \in 0..Len(str) :
        /\ (n = Len(str) \/ str[n + 1] = " ")
        /\ \A i \in 1..n : str[i] # " "

PrefixOf(str) == SubSeq(str, 1, KeyOf(str))

\* the calendar day a date key names
ValueOfDigit == [c \in Range(DigitChars) |-> CHOOSE n \in 0..9 : DigitChars[n + 1] = c]
KeyDayNum(key) ==
    DayNum(1000 * ValueOfDigit[key[1]] + 100 * ValueOfDigit[key[2]]
             + 10 * ValueOfDigit[key[3]] + ValueOfDigit[key[4]],
           10 * ValueOfDigit[key[6]] + ValueOfDigit[key[7]],
           10 * ValueOfDigit[key[9]] + ValueOfDigit[key[10]])

\* positions of the input records of a day, and the days of the input
RecordsOfDay(key) == {i \in 1..Len(rawData) : PrefixOf(rawData[i].timestamp) = key}
InputKeys == {PrefixOf(rawData[i].timestamp) : i \in 1..Len(rawData)}

\* minutes into the day of a "YYYY-MM-DD HH:MM" timestamp
MinuteOfDay(ts) == 60 * DigitsVal(SubSeq(ts, 12, 13)) + DigitsVal(SubSeq(ts, 15, 16))

RECURSIVE SumAbsChange(_)
SumAbsChange(S) ==
    IF S = {} THEN 0
    ELSE LET i == CHOOSE x \in S : TRUE
         IN  (IF rawData[i].word_change < 0 THEN -rawData[i].word_change
              ELSE rawData[i].word_change) + SumAbsChange(S \ {i})

Daily == aggregated.daily

----------------------------------------------------------------------------
(* Properties of the daily aggregation *)

\* C1: the first aggregate (smallest date) has net_change = its
\* total_investment; every later aggregate has net_change = its total_words
\* minus the total_words of the aggregate of the nearest earlier day that
\* has records, however many calendar days lie between them.
NetChangeAgainstPreviousAggregate ==
    pc = "aggregated" =>
        \A i \in 1..Len(Daily) :
            LET earlier == {j \in 1..Len(Daily) : KeyDayNum(Daily[j].date) < KeyDayNum(Daily[i].date)}
            IN  IF earlier = {}
                THEN Daily[i].net_change = Daily[i].total_investment
                ELSE LET prev == CHOOSE j \in earlier :
                                    \A k \in earlier : KeyDayNum(Daily[k].date) <= KeyDayNum(Daily[j].date)
                     IN  Daily[i].net_change = Daily[i].total_words - Daily[prev].total_words

\* a later aggregate whose predecessor is not the calendar day before it,
\* with a nonzero difference, after a first aggregate with its investment
NetChangeAcrossGapReached ==
    /\ pc = "aggregated"
    /\ Len(Daily) = 2
    /\ KeyDayNum(Daily[2].date) - KeyDayNum(Daily[1].date) > 1
    /\ Daily[2].net_change = -50
    /\ Daily[1].net_change = 12

\* C2: every input record is counted in exactly one aggregate, the one of
\* the part of its timestamp before the first space: the aggregates' dates
\* are exactly the date parts of the input, no date has two aggregates, the
\* investments of all aggregates add up to that of all records, and every
\* aggregate is active.
GroupingExhaustiveAndDisjoint ==
    pc = "aggregated" =>
        /\ {Daily[i].date : i \in 1..Len(Daily)} = InputKeys
        /\ \A i, j \in 1..Len(Daily) : Daily[i].date = Daily[j].date => i = j
        /\ \A i \in 1..Len(Daily) : Daily[i].is_active /\ RecordsOfDay(Daily[i].date) # {}
        /\ SeqSum([i \in 1..Len(Daily) |-> Daily[i].total_investment])
              = SumAbsChange(1..Len(rawData))

\* records of two days interleaved in the input, two of them on one day
GroupingInterleavedReached ==
    /\ pc = "aggregated"
    /\ Len(rawData) = 3
    /\ PrefixOf(rawData[1].timestamp) = PrefixOf(rawData[3].timestamp)
    /\ PrefixOf(rawData[1].timestamp) # PrefixOf(rawData[2].timestamp)
    /\ Len(Daily) = 2

\* C5: total_words of an aggregate is total_words of the record of its day
\* that is last in input order; when the day's records are in chronological
\* order in the input, that is a chronologically last snapshot of the day.
TotalWordsOfLastInputRecord ==
    pc = "aggregated" =>
        \A i \in 1..Len(Daily) :
            LET idx == RecordsOfDay(Daily[i].date)
                last == CHOOSE k \in idx : \A l \in idx : l <= k
                chronological ==
                    \A k, l \in idx :
                        k < l => MinuteOfDay(rawData[k].timestamp) <= MinuteOfDay(rawData[l].timestamp)
            IN  /\ Daily[i].total_words = rawData[last].total_words
                /\ chronological =>
                      \A k \in idx : MinuteOfDay(rawData[k].timestamp) <= MinuteOfDay(rawData[last].timestamp)

\* a day whose evening record comes before its morning record in the input:
\* the aggregate carries the morning total, not the evening one
TotalWordsNotResortedReached ==
    /\ pc = "aggregated"
    /\ Len(rawData) = 2
    /\ Len(Daily) = 1
    /\ MinuteOfDay(rawData[1].timestamp) > MinuteOfDay(rawData[2].timestamp)
    /\ rawData[1].total_words = 150
    /\ Daily[1].total_words = 100

\* C6: total_investment of an aggregate is the sum of |word_change| over the
\* records of its day.
TotalInvestmentIsSumOfAbs ==
    pc = "aggregated" =>
        \A i \in 1..Len(Daily) :
            Daily[i].total_investment = SumAbsChange(RecordsOfDay(Daily[i].date))

\* a day with a deletion and an addition: 5 + 7, not 7 - 5
TotalInvestmentMixedSignsReached ==
    /\ pc = "aggregated"
    /\ Len(Daily) = 1
    /\ \E k, l \in 1..Len(rawData) : rawData[k].word_change < 0 /\ rawData[l].word_change > 0
    /\ Daily[1].total_investment = 12

\* C7: the aggregates are strictly ascending by date, one per distinct date
\* of the input, and there is none for an empty input.
DailyStrictlyAscending ==
    pc = "aggregated" =>
        /\ \A i, j \in 1..Len(Daily) : i < j => KeyDayNum(Daily[i].date) < KeyDayNum(Daily[j].date)
        /\ Len(Daily) = Cardinality(InputKeys)
        /\ rawData = <<>> => Daily = <<>>

\* three days supplied latest first
DailySortedFromDescendingInputReached ==
    /\ pc = "aggregated"
    /\ Len(rawData) = 3
    /\ KeyDayNum(PrefixOf(rawData[1].timestamp)) > KeyDayNum(PrefixOf(rawData[2].timestamp))
    /\ KeyDayNum(PrefixOf(rawData[2].timestamp)) > KeyDayNum(PrefixOf(rawData[3].timestamp))
    /\ Len(Daily) = 3

----------------------------------------------------------------------------
(* Properties of the writing streak *)

\* the aggregate of a day number has a nonzero net_change
DayQualifies(n) ==
    \E i \in 1..Len(Daily) : KeyDayNum(Daily[i].date) = n /\ Daily[i].net_change # 0

\* the largest K such that the K calendar days ending at the last aggregate's
\* day all qualify
ConsecutiveQualifyingDays ==
    IF Daily = <<>> THEN 0
    ELSE LET last == KeyDayNum(Daily[Len(Daily)].date)
         IN  CHOOSE k \in 0..Len(Daily) :
                 /\ \A j \in 0..(k - 1) : DayQualifies(last - j)
                 /\ (k = Len(Daily) \/ ~DayQualifies(last - k))

\* C3: the streak is 0 for an empty series and otherwise the number of
\* consecutive calendar days, ending at the last aggregate's date, that each
\* have an aggregate with net_change # 0.
StreakCountsConsecutiveDays ==
    pc = "aggregated" => aggregated.writingStreak = ConsecutiveQualifyingDays

----------------------------------------------------------------------------
(* Properties of the trend series *)

\* the local calendar day the clock was read on, as a day number
AnchorDayNum ==
    LET d == CHOOSE e \in ClockDays :
                 \E h \in ClockHours : now = 24 * DayNum(e[1], e[2], e[3]) + h - tz
    IN  DayNum(d[1], d[2], d[3])

\* the date key of a day number
KeyOfDayNum(n) ==
    LET c == CivilOfDayNum(n) IN DateKey(<<c.year, c.month, c.day>>)

\* positions of the calendar-day sequence that have a daily aggregate
AggregateAt(k) == {i \in 1..Len(Daily) : Daily[i].date = dateSequence[k]}
DatumPositions == {k \in 1..Len(dateSequence) : AggregateAt(k) # {}}

\* C9: generateDateSequence returns exactly N keys, the consecutive calendar
\* days in ascending order that end at the anchor's own local day.
DateSequenceConsecutiveEndingAtAnchor ==
    pc = "filled" =>
        /\ Len(dateSequence) = days
        /\ \A k \in 1..Len(dateSequence) :
              dateSequence[k] = KeyOfDayNum(AnchorDayNum - (days - k))

\* four days ending on 2 January: the sequence starts in the year before
DateSequenceAcrossYearReached ==
    /\ pc = "filled"
    /\ dateSequence = <<DateKey(<<2023, 12, 30>>), DateKey(<<2023, 12, 31>>),
                        DateKey(<<2024, 1, 1>>), DateKey(<<2024, 1, 2>>)>>

\* C8: one chart point per calendar day of the sequence, in its order and
\* with its keys; the point of a day that has an aggregate carries that
\* aggregate's net_change and total_words.
OnePointPerCalendarDay ==
    pc = "filled" =>
        /\ Len(monthlyData) = Len(dateSequence)
        /\ \A k \in 1..Len(dateSequence) :
              /\ monthlyData[k].date = dateSequence[k]
              /\ \A i \in AggregateAt(k) :
                    /\ monthlyData[k].dailyWords = Daily[i].net_change
                    /\ ~monthlyData[k].totalWords.isNull
                    /\ monthlyData[k].totalWords.value = Daily[i].total_words

\* a later day of the window with an aggregate whose net_change differs
\* from its investment
PointOfAggregateReached ==
    /\ pc = "filled"
    /\ \E k \in 2..Len(dateSequence) : \E i \in AggregateAt(k) :
          /\ i > 1
          /\ Daily[i].net_change = 50
          /\ monthlyData[k].dailyWords = 50
          /\ monthlyData[k].totalWords.value = 150

\* C4: a day without a datum before the first datum of the walk carries the
\* no-data marker, and one after it carries dailyWords 0 and the totalWords
\* of the nearest earlier datum of the walk.
GapsCarryLastTotal ==
    pc = "filled" =>
        \A k \in 1..Len(monthlyData) :
            k \notin DatumPositions =>
                LET before == {j \in DatumPositions : j < k}
                IN  /\ monthlyData[k].dailyWords = 0
                    /\ IF before = {}
                       THEN monthlyData[k].totalWords.isNull
                       ELSE LET j == CHOOSE x \in before : \A y \in before : y <= x
                            IN  /\ ~monthlyData[k].totalWords.isNull
                                /\ \A i \in AggregateAt(j) :
                                      monthlyData[k].totalWords.value = Daily[i].total_words

\* a window with a leading day without data, then a datum, then two gap days
\* that carry its total
LeadingGapThenCarryReached ==
    /\ pc = "filled"
    /\ Len(monthlyData) = 4
    /\ DatumPositions = {2}
    /\ monthlyData[1].totalWords.isNull
    /\ monthlyData[3].totalWords = Number(150)
    /\ monthlyData[4].totalWords = Number(150)

----------------------------------------------------------------------------
(* Properties of the CSV normalisation *)

\* the number of comma-separated fields of a line
FieldCount(line) == Cardinality({i \in 1..Len(line) : line[i] = ","}) + 1

\* the position that ends the first field of a line
FirstFieldEnd(line) ==
    CHOOSE n \in 1..(Len(line) + 1) :
        /\ n = Len(line) + 1 \/ line[n] = ","
        /\ \A i \in 1..(n - 1) : line[i] # ","

\* a string of the shape YYYY-MM-DD HH:MM that names a calendar day
IsDateTime(str) ==
    /\ Len(str) = 16
    /\ IsIsoDateKey(SubSeq(str, 1, 10))
    /\ str[11] = " " /\ str[14] = ":"
    /\ \A i \in {12, 13, 15, 16} : IsDigit(str[i])

\* the timestamp field of a line is blank
TimestampMissing(line) == \A i \in 1..(FirstFieldEnd(line) - 1) : line[i] = " "

\* the timestamp field of a line is a date and time, spaces around it aside
TimestampParsable(line) ==
    \E a, b \in 1..(FirstFieldEnd(line) - 1) :
        /\ IsDateTime(SubSeq(line, a, b))
        /\ \A i \in 1..(FirstFieldEnd(line) - 1) : (i < a \/ i > b) => line[i] = " "

Malformed(line) ==
    FieldCount(line) < 4 \/ TimestampMissing(line) \/ ~TimestampParsable(line)

\* C10: parseCsv discards the header and drops every malformed line (fewer
\* than 4 fields, or a missing or unparsable timestamp); every other line
\* yields one record, so every record that reaches aggregation has a
\* timestamp that is a date and time.
MalformedLinesDropped ==
    pc = "loaded" =>
        /\ Len(parsed) = Cardinality({k \in 1..Len(csvLines) : ~Malformed(csvLines[k])})
        /\ \A i \in 1..Len(parsed) : IsDateTime(parsed[i].timestamp)
        /\ \A i \in 1..Len(aggregated.daily) : IsIsoDateKey(aggregated.daily[i].date)

----------------------------------------------------------------------------
(* Properties of the dashboard data *)

\* C11: recentSaves has min(3, n) elements and its k-th element is the
\* k-th record from the end of the input, the last input record first.
RecentSavesLastThreeReversed ==
    pc = "aggregated" =>
        LET n == Len(rawData)
            saves == aggregated.recentSaves
        IN  /\ Len(saves) = (IF n < 3 THEN n ELSE 3)
            /\ \A k \in 1..Len(saves) : saves[k] = rawData[n - k + 1]

\* four records: the first is left out and the other three come reversed
RecentSavesOfFourReached ==
    /\ pc = "aggregated"
    /\ Len(rawData) = 4
    /\ rawData[2] # rawData[4]
    /\ rawData[1] \notin Range(aggregated.recentSaves)
    /\ aggregated.recentSaves = <<rawData[4], rawData[3], rawData[2]>>

\* C12: latestTotal is total_words of the last record in input order and
\* latestNetChange is net_change of the aggregate of the latest day; for an
\* empty input the totals and the streak are 0 and both lists are empty.
LatestTotalsAndEmptyDefaults ==
    pc = "aggregated" =>
        IF rawData = <<>>
        THEN /\ aggregated.latestTotal = 0
             /\ aggregated.latestNetChange = 0
             /\ aggregated.writingStreak = 0
             /\ aggregated.daily = <<>>
             /\ aggregated.recentSaves = <<>>
        ELSE /\ aggregated.latestTotal = rawData[Len(rawData)].total_words
             /\ \E i \in 1..Len(Daily) :
                   /\ \A j \in 1..Len(Daily) : KeyDayNum(Daily[j].date) <= KeyDayNum(Daily[i].date)
                   /\ aggregated.latestNetChange = Daily[i].net_change

\* the last record of the input is not of the latest day: latestTotal is its
\* total, not the total of the last aggregate
LatestTotalOfEarlierDayReached ==
    /\ pc = "aggregated"
    /\ Len(rawData) = 2
    /\ Len(Daily) = 2
    /\ aggregated.latestTotal = 100
    /\ Daily[2].total_words = 150
    /\ aggregated.latestNetChange = 50

\* C17: on every host the streak walk first looks up the date key of the
\* last aggregate (parsing the key into a Date and formatting it back gives
\* the key again), and a step back gives the key of the day before.
StreakWalkStartsAtLastAggregate ==
    (pc = "aggregated" /\ Daily # <<>>) =>
        LET key == Daily[Len(Daily)].date
            currentDate == NewDateFromString(key)
            first == getLocalDateStringFromDate(currentDate, tz)
            second == getLocalDateStringFromDate(
                          setDate(currentDate, tz, getDate(currentDate, tz) - 1), tz)
        IN  /\ first = key
            /\ second = KeyOfDayNum(KeyDayNum(first) - 1)

\* C16: in the trend series of a trailing window a day carries the no-data
\* marker only if no day of the whole history on or before it has an
\* aggregate; every other day carries the total_words of the nearest
\* aggregate on or before it, also when that lies before the window.
NullOnlyBeforeFirstAggregate ==
    pc = "filled" =>
        \A k \in 1..Len(monthlyData) :
            LET n == KeyDayNum(dateSequence[k])
                onOrBefore == {i \in 1..Len(Daily) : KeyDayNum(Daily[i].date) <= n}
            IN  IF onOrBefore = {}
                THEN monthlyData[k].totalWords.isNull
                ELSE LET i == CHOOSE x \in onOrBefore :
                                  \A y \in onOrBefore : KeyDayNum(Daily[y].date) <= KeyDayNum(Daily[x].date)
                     IN  /\ ~monthlyData[k].totalWords.isNull
                         /\ monthlyData[k].totalWords.value = Daily[i].total_words

\* C13: the calls leave their inputs as they were: the record array holds
\* the same records in the same order, and the daily aggregates handed to
\* the streak calculator and to the trend series have the values
\* aggregateByDay returned.
InputsLeftUnchanged ==
    pc \in {"aggregated", "filled"} =>
        /\ memory.rawData = rawData
        /\ memory.daily = aggregated.daily

\* three records that read differently backwards, aggregated, their last
\* three reversed for the recent saves, and the trend series filled
InputsOfThreeRecordsReached ==
    /\ pc = "filled"
    /\ Len(rawData) = 3
    /\ rawData # Reverse(rawData)
    /\ memory.recentSaves = Reverse(rawData)
    /\ aggregated.recentSaves = memory.recentSaves
    /\ Len(memory.daily) >= 2
    /\ DatumPositions # {}

----------------------------------------------------------------------------
(* Properties of the dashboard component *)

NothingInFlight == pending = <<>>

\* C14: whenever no load of the example data and no file read is in
\* flight, the trend series on display has the length of the selected time
\* range, 7 for week, 30 for month and 180 for year, whatever the order in
\* which the loads and the file read have completed.
TrendLengthOfSelectedRange ==
    (MainViewRendered /\ NothingInFlight) =>
        Len(monthlyData) = (CASE timeRange = "week" -> 7
                              [] timeRange = "month" -> 30
                              [] timeRange = "year" -> 180)

\* the statistics on display other than the trend series
Statistics == <<heatmapData, recentSaves, latestTotal, latestNetChange, writingStreak>>

\* a step of updateDataForTimeRange after a time-range change: the
\* synchronous one, or the completion of the load the change has started
TimeRangeStep ==
    /\ pc' = "mounted"
    /\ \/ (timeRange' # timeRange /\ pending' = pending)
       \/ \E i \in 1..Len(pending) :
             /\ pending[i].kind = "updateDataForTimeRange"
             /\ ~pending[i].onMount
             /\ pending' = Remove(pending, i)

\* C15: a time-range change changes only the trend series: the heatmap,
\* the recent saves, the latest total, the latest net change and the streak
\* displayed after it are those displayed before it.
TimeRangeChangesOnlyTrend ==
    [][(MainViewRendered /\ TimeRangeStep) => Statistics' = Statistics]_vars

====
